---------------------------- MODULE Spec2Model ----------------------------
(***************************************************************************)
(* ArduCopterMega flight-control core: the cooperative scheduler (loop,    *)
(* fast_loop, medium_loop, slow_loop, super_slow_loop), GPS acquisition    *)
(* and health (update_GPS) and the flight-mode dispatch                    *)
(* (update_current_flight_mode).                                           *)
(*                                                                         *)
(* The C globals are the VARIABLES.  Every handler is a pure operator on   *)
(* the record S of those globals; an action applies one handler and        *)
(* commits the record it returns.  External collaborators (GPS driver,     *)
(* radio, mode switch / ground station, navigate) are inputs drawn from    *)
(* the sets of an environment record.                                      *)
(***************************************************************************)
EXTENDS Integers, Sequences, FiniteSets, TLC

VARIABLES
    \* ---- system timers (loop) ----
    millis,                 \* the millisecond clock
    fast_loopTimer,
    medium_loopTimer,
    perf_mon_timer,
    delta_ms_fast_loop,     \* uint8_t
    delta_ms_medium_loop,   \* uint8_t
    mainLoop_count,
    G_Dt_max,
    counter_one_herz,       \* byte
    pc,                     \* position inside loop(): "fast" or "medium"
    \* ---- medium / slow tier ----
    medium_loopCounter,     \* byte
    slow_loopCounter,       \* byte
    superslow_loopCounter,  \* int
    \* ---- GPS ----
    GPS_failure_counter,    \* byte
    GPS_disabled,
    ground_start_count,     \* byte
    g_gps,                  \* the driver object: new_data, fix, latitude, ...
    current_loc,
    home,
    next_WP,
    wp_distance,
    \* ---- altitude ----
    altitude_sensor,        \* "BARO" or "SONAR"
    baro_alt,
    sonar_alt,
    \* ---- flight mode ----
    control_mode,
    fbw_timer,              \* byte
    rc,                     \* g.rc_1/2/3.control_in
    yaw_sensor,             \* dcm.yaw_sensor, the current heading (deg * 100)
    initial_simple_bearing, \* used for Simple mode
    nav_bearing,            \* deg * 100 : 0 to 360 current desired bearing to navigate
    nav_roll,               \* deg * 100 : target roll angle
    nav_pitch,              \* deg * 100 : target pitch angle
    nav_out,                \* the targets the navigation algorithms work out next
    mixer_nav,              \* <<nav_roll, nav_pitch>> as the last mixer call found them
    \* ---- observation of the run (not program state) ----
    op,                     \* the operation of the last step
    calls,                  \* the calls that operation made, in order
    drv,                    \* the last step, if a GPS phase: what the driver had to
                            \* deliver and the counters the phase started from
    init_home_calls,        \* number of init_home() invocations so far
    med_hist,               \* switch cases taken by the last (up to 5) medium_loop calls
    slow_hist,              \* slow_loop cases taken by the last (up to 15) medium_loop calls
    sonar_on,               \* g.sonar_enabled at the last update_alt
    sweep_hist,             \* the sources chosen (repetitions dropped) by the update_alt
                            \* calls of the sonar sweep in progress, <<>> outside a sweep
    unserved,               \* the driver has raised new_data since navigate() last ran
    handoff,                \* the last step, if a navigation phase: new_data and
                            \* unserved as the phase found them
    since_save,             \* slow-tier cycles (slow case 0 runs) since the last
                            \* compass.save_offsets(), or since the start
    saves,                  \* compass.save_offsets() invocations so far (saturates at 2)
    slow0,                  \* the last step, if it ran slow case 0: g.compass_enabled
                            \* and the cycles since the last save, this one included
    chatter,                \* consecutive update_alt calls that changed the source while
                            \* the barometer alternated around 550 under a low sonar
    fail_run,               \* consecutive GPS phases without a new valid fix
    good_run,               \* consecutive GPS phases with a valid non-zero fix, from countdown 5
    medium_since_super,     \* medium_loop calls since super_slow_loop last ran
    super_gap,              \* that number at the last super_slow_loop run
    super_runs,             \* super_slow_loop runs so far (saturates at 2)
    fast_entry,             \* the clock at the last fast_loop entry (-1: none yet)
    medium_entry,           \* the clock at the last medium_loop entry (-1: none yet)
    fast_since_tick,        \* fast_loop entries since the clock last advanced (saturates at 2)
    medium_since_tick,      \* medium_loop entries since the clock last advanced (saturates at 2)
    fast_elapsed,           \* the milliseconds between the last fast_loop entry and the
                            \* one before it
    sub_stay,               \* fast ticks since the last virtual-waypoint recompute of the
                            \* current stay in a mode (-1: none yet in this stay)
    sub_gap,                \* at a recompute: its distance in fast ticks from the previous
                            \* recompute of the same stay; 0 otherwise
    \* ---- simulator bridge (XPlane) ----
    unselected_mask,        \* uint64_t bit mask, as the set of its data codes
    connected,
    xp_millis,              \* AP_HAL::millis() as the bridge reads it
    last_data_time_ms,
    xplane_frame_time,
    time_now_us,
    time_base_us,
    last_send_time_us,
    report,                 \* data_count, frame_count, last_report_ms
    xp_sent,                \* the packets the last operation sent on socket_out
    \* ---- observation of the simulator bridge ----
    xp_call,                \* the last operation, its arguments and the mask it found
    usel_named,             \* the codes named by one, and by more than one, USEL request
    xp_updates              \* the calls of update so far

altObs    == <<sonar_on, sweep_hist, chatter>>
navObs    == <<unserved, handoff>>
saveObs   == <<since_save, saves, slow0>>
timerVars == <<millis, fast_loopTimer, medium_loopTimer, perf_mon_timer,
               delta_ms_fast_loop, delta_ms_medium_loop, mainLoop_count,
               counter_one_herz, pc>>
coreVars  == <<G_Dt_max, medium_loopCounter, slow_loopCounter, superslow_loopCounter,
               GPS_failure_counter, GPS_disabled, ground_start_count, g_gps,
               current_loc, home, next_WP, wp_distance, altitude_sensor, baro_alt,
               sonar_alt, control_mode, fbw_timer, rc, yaw_sensor,
               initial_simple_bearing, nav_bearing, nav_roll, nav_pitch, nav_out,
               mixer_nav, calls, init_home_calls>>
obsVars   == <<op, drv, med_hist, slow_hist, altObs, navObs, saveObs, fail_run, good_run,
               medium_since_super, super_gap, super_runs>>
schedObs  == <<fast_entry, medium_entry, fast_since_tick, medium_since_tick,
               fast_elapsed>>
subObs    == <<sub_stay, sub_gap>>
copterVars == <<timerVars, coreVars, obsVars, schedObs, subObs>>
xpVars    == <<unselected_mask, connected, xp_millis, last_data_time_ms,
               xplane_frame_time, time_now_us, time_base_us, last_send_time_us,
               report, xp_sent, xp_call, usel_named, xp_updates>>
vars      == <<copterVars, xpVars>>

----------------------------------------------------------------------------
(* Program constants *)

Byte == 256

FastPeriod == 9
MediumPeriod == 19
PerfPeriod == 20000
OneHerz == 50
CompassSavePeriod == 1400
LoiterRadius == 800
BaroLow == 550
SonarHigh == 600
AltHoldFloor == 30
GpsFailureMax == 3
GroundStartFixes == 5
SimpleGate == 4
FbwGate == 10
ACRO_RATE_TRIGGER == 4200

FlightModes == {"STABILIZE", "ACRO", "ALT_HOLD", "SIMPLE", "FBW",
                "AUTO", "GCS_AUTO", "LOITER", "RTL"}

(* Bounds of the model *)

MaxMillis == 6400       \* SpecSched stops the clock here
MaxPollMillis == 56     \* SpecPoll stops the clock here
MaxStallMillis == 700   \* SpecStall stops the clock here
MaxSlowCycles == 3      \* SpecGPS stops after this many slow-tier cycles
MaxHomeSlowCycles == 4  \* SpecHome stops after this many slow-tier cycles
MaxModeSlowCycles == 2  \* SpecMode stops after this many slow-tier cycles
MaxAltSlowCycles == 3   \* SpecAlt stops after this many slow-tier cycles
MaxSimpleSlowCycles == 2 \* SpecSimple stops after this many slow-tier cycles
MaxRateSlowCycles == 2  \* SpecRate stops after this many slow-tier cycles
MaxManualSlowCycles == 2 \* SpecManual stops after this many slow-tier cycles
MaxNavSlowCycles == 3   \* SpecNav stops after this many slow-tier cycles
MaxCompassCycles == 1403 \* SpecCompass stops at this many slow-tier cycles without a save
RunCap == 5             \* fail_run / good_run saturate here
ChatterCap == 3         \* chatter saturates here
MaxUpdates == 3         \* SpecXPlane calls update at most this many times
MaxBridgeUpdates == 3   \* SpecBridge calls update at most this many times

----------------------------------------------------------------------------
(* Inputs *)

NoMsg     == [msg |-> FALSE, fix |-> FALSE, latitude |-> 0, longitude |-> 0, altitude |-> 0]
NoLock    == [msg |-> TRUE,  fix |-> FALSE, latitude |-> 0, longitude |-> 0, altitude |-> 0]
Fix(c)    == [msg |-> TRUE,  fix |-> TRUE,  latitude |-> c, longitude |-> c, altitude |-> c * 10]

\* drv when the last step was not a GPS phase
Idle == [fix |-> NoMsg, failure_counter |-> -1, ground_start_count |-> -1,
         init_home_calls |-> -1]

\* handoff when the last step was not a navigation phase
NoPhase == [phase |-> FALSE, new_data |-> FALSE, unserved |-> FALSE]

\* slow0 when the last step did not run slow case 0
NoSlow0 == [ran |-> FALSE, compass_enabled |-> FALSE, cycles |-> 0]

\* xp_call before the first operation
NoCall == [op |-> "none", usel |-> {}, sel |-> {}, mask |-> {}, before |-> {},
           accepted |-> FALSE, dg |-> <<>>, age |-> 0, had_frame |-> FALSE,
           time |-> <<0, 0>>, frames |-> <<0, 0>>, datas |-> <<0, 0>>]

Sticks(a, b, t) == [rc_1 |-> a, rc_2 |-> b, rc_3 |-> t]

Loc(la, ln, al) == [lat |-> la, lng |-> ln, alt |-> al]

Nav(r, p) == [roll |-> r, pitch |-> p]

----------------------------------------------------------------------------
(* The globals as one record *)

S == [G_Dt_max |-> G_Dt_max,
      medium_loopCounter |-> medium_loopCounter,
      slow_loopCounter |-> slow_loopCounter,
      superslow_loopCounter |-> superslow_loopCounter,
      GPS_failure_counter |-> GPS_failure_counter,
      GPS_disabled |-> GPS_disabled,
      ground_start_count |-> ground_start_count,
      g_gps |-> g_gps,
      current_loc |-> current_loc,
      home |-> home,
      next_WP |-> next_WP,
      wp_distance |-> wp_distance,
      altitude_sensor |-> altitude_sensor,
      baro_alt |-> baro_alt,
      sonar_alt |-> sonar_alt,
      control_mode |-> control_mode,
      fbw_timer |-> fbw_timer,
      rc |-> rc,
      yaw_sensor |-> yaw_sensor,
      initial_simple_bearing |-> initial_simple_bearing,
      nav_bearing |-> nav_bearing,
      nav_roll |-> nav_roll,
      nav_pitch |-> nav_pitch,
      nav_out |-> nav_out,
      mixer_nav |-> mixer_nav,
      calls |-> calls,
      init_home_calls |-> init_home_calls]

Commit(r) ==
    /\ G_Dt_max' = r.G_Dt_max
    /\ medium_loopCounter' = r.medium_loopCounter
    /\ slow_loopCounter' = r.slow_loopCounter
    /\ superslow_loopCounter' = r.superslow_loopCounter
    /\ GPS_failure_counter' = r.GPS_failure_counter
    /\ GPS_disabled' = r.GPS_disabled
    /\ ground_start_count' = r.ground_start_count
    /\ g_gps' = r.g_gps
    /\ current_loc' = r.current_loc
    /\ home' = r.home
    /\ next_WP' = r.next_WP
    /\ wp_distance' = r.wp_distance
    /\ altitude_sensor' = r.altitude_sensor
    /\ baro_alt' = r.baro_alt
    /\ sonar_alt' = r.sonar_alt
    /\ control_mode' = r.control_mode
    /\ fbw_timer' = r.fbw_timer
    /\ rc' = r.rc
    /\ yaw_sensor' = r.yaw_sensor
    /\ initial_simple_bearing' = r.initial_simple_bearing
    /\ nav_bearing' = r.nav_bearing
    /\ nav_roll' = r.nav_roll
    /\ nav_pitch' = r.nav_pitch
    /\ nav_out' = r.nav_out
    /\ mixer_nav' = r.mixer_nav
    /\ calls' = r.calls
    /\ init_home_calls' = r.init_home_calls

Call(s, name) == [s EXCEPT !.calls = Append(@, name)]

CallAll(s, names) == [s EXCEPT !.calls = @ \o names]

----------------------------------------------------------------------------
(* External collaborators *)

\* GPS::update(): a parsed message raises new_data and refreshes the fix;
\* the driver never lowers new_data.
GPS_update(g, d) ==
    IF d.msg
    THEN IF d.fix
         THEN [new_data |-> TRUE, fix |-> TRUE, latitude |-> d.latitude,
               longitude |-> d.longitude, altitude |-> d.altitude]
         ELSE [g EXCEPT !.new_data = TRUE, !.fix = FALSE]
    ELSE g

\* init_home(): home is latched from the driver's current fix.
init_home(s) ==
    [Call(s, "init_home") EXCEPT
        !.home = Loc(s.g_gps.latitude, s.g_gps.longitude, s.g_gps.altitude),
        !.init_home_calls = IF @ < 2 THEN @ + 1 ELSE @]

\* navigate(): recomputes the distance to the next waypoint.
navigate(s, dist) == [Call(s, "navigate") EXCEPT !.wp_distance = dist]

\* set_mode(), from read_control_switch() or a ground-station command.
\* Entering SIMPLE records the heading of that moment.
set_mode(s, m) ==
    [s EXCEPT !.control_mode = m,
              !.initial_simple_bearing =
                  IF m = "SIMPLE" /\ s.control_mode # "SIMPLE" THEN s.yaw_sensor ELSE @]

\* The attitude estimate read_AHRS() is about to deliver: heading y.
AHRS(s, y) == [s EXCEPT !.yaw_sensor = y]

\* calc_loiter_nav() and calc_waypoint_nav(): the navigation algorithms write
\* the roll and pitch targets they work out.
calc_loiter_nav(s) ==
    [Call(s, "calc_loiter_nav") EXCEPT !.nav_roll = s.nav_out.roll,
                                       !.nav_pitch = s.nav_out.pitch]

calc_waypoint_nav(s) ==
    [Call(s, "calc_waypoint_nav") EXCEPT !.nav_roll = s.nav_out.roll,
                                         !.nav_pitch = s.nav_out.pitch]

\* control_nav_mixer() and fbw_nav_mixer(): the output stage mixes the
\* targets it finds with the pilot's input.
control_nav_mixer(s) ==
    [Call(s, "control_nav_mixer") EXCEPT !.mixer_nav = <<s.nav_roll, s.nav_pitch>>]

fbw_nav_mixer(s) ==
    [Call(s, "fbw_nav_mixer") EXCEPT !.mixer_nav = <<s.nav_roll, s.nav_pitch>>]

----------------------------------------------------------------------------
(* update_GPS *)

GPS_countdown(s) ==
    IF s.ground_start_count > 1
    THEN [s EXCEPT !.ground_start_count = @ - 1]
    ELSE IF s.ground_start_count = 1
         THEN IF s.current_loc.lat = 0
              THEN [s EXCEPT !.ground_start_count = GroundStartFixes]
              ELSE [init_home(s) EXCEPT !.current_loc.alt = s.g_gps.altitude,
                                        !.ground_start_count = 0]
         ELSE s

\* Mutant of GPS_hit: a good fix leaves the failure counter where it is.
GPS_hit_keep(s) == s

GPS_hit(s) == [s EXCEPT !.GPS_failure_counter = GpsFailureMax]

\* Mutant of GPS_miss: a missed fix is not counted.
GPS_miss_uncounted(s) == s

GPS_miss(s) ==
    IF s.GPS_failure_counter > 0
    THEN [s EXCEPT !.GPS_failure_counter = @ - 1]
    ELSE s

update_GPS(s, d) ==
    LET s1 == [Call(s, "update_GPS") EXCEPT !.g_gps = GPS_update(s.g_gps, d)]
    IN  IF s1.g_gps.new_data /\ s1.g_gps.fix
        THEN LET s2 == GPS_hit(s1)
                 s3 == GPS_countdown(s2)
             IN  [s3 EXCEPT !.current_loc.lng = s3.g_gps.longitude,
                            !.current_loc.lat = s3.g_gps.latitude]
        ELSE GPS_miss(s1)

----------------------------------------------------------------------------
(* Arithmetic of the C code *)

Abs(x) == IF x < 0 THEN -x ELSE x
Max(a, b) == IF a > b THEN a ELSE b
Min(a, b) == IF a < b THEN a ELSE b

\* C integer division truncates towards zero.
TruncDiv(a, b) == IF a >= 0 THEN a \div b ELSE -((-a) \div b)

RECURSIVE ISqrtIn(_, _, _)
ISqrtIn(n, lo, hi) ==
    IF lo >= hi THEN lo
    ELSE LET mid == (lo + hi + 1) \div 2
         IN  IF mid * mid <= n THEN ISqrtIn(n, mid, hi) ELSE ISqrtIn(n, lo, mid - 1)

\* 46340 * 46340 is the largest square below 2^31.
ISqrt(n) == ISqrtIn(n, 0, Min(n, 46340))

\* get_distance(): planar distance in metres between two fixed-point locations.
get_distance(a, b) ==
    LET dlat == b.lat - a.lat
        dlng == b.lng - a.lng
    IN  (ISqrt(dlat * dlat + dlng * dlng) * 111) \div 10000

\* get_bearing(): the bearing of b seen from a, deg * 100 clockwise from
\* north, on the eight-point compass (exact for the offsets along an axis);
\* 9000 + atan2(0, 0) for coincident points.
get_bearing(a, b) ==
    LET dy == b.lat - a.lat
        dx == b.lng - a.lng
    IN  CASE dy > 0 /\ dx = 0 -> 0
          [] dy > 0 /\ dx > 0 -> 4500
          [] dy = 0 /\ dx > 0 -> 9000
          [] dy < 0 /\ dx > 0 -> 13500
          [] dy < 0 /\ dx = 0 -> 18000
          [] dy < 0 /\ dx < 0 -> 22500
          [] dy = 0 /\ dx < 0 -> 27000
          [] dy > 0 /\ dx < 0 -> 31500
          [] OTHER -> 9000

wrap_360(x) == IF x > 36000 THEN x - 36000 ELSE IF x < 0 THEN x + 36000 ELSE x

----------------------------------------------------------------------------
(* update_alt *)

\* Mutant of update_alt: the source is not reset to BARO on entry.
update_alt_keeps(s, in) ==
    LET s1 == [Call(s, "update_alt") EXCEPT !.baro_alt = in.baro]
    IN  IF in.sonar_enabled
        THEN LET s2 == [s1 EXCEPT !.sonar_alt = in.sonar]
                 s3 == IF s2.baro_alt < BaroLow
                       THEN [s2 EXCEPT !.altitude_sensor = "SONAR"] ELSE s2
                 s4 == IF s3.sonar_alt > SonarHigh
                       THEN [s3 EXCEPT !.altitude_sensor = "BARO"] ELSE s3
             IN  IF s4.altitude_sensor = "BARO"
                 THEN [s4 EXCEPT !.current_loc.alt = s4.baro_alt + s4.home.alt]
                 ELSE LET s5 == [s4 EXCEPT !.sonar_alt = Min(@, SonarHigh)]
                      IN  [s5 EXCEPT !.current_loc.alt = s5.sonar_alt + s5.home.alt]
        ELSE [s1 EXCEPT !.current_loc.alt = s1.baro_alt + s1.home.alt]

\* Mutant of update_alt: the sonar is dropped only inside a band above 600.
update_alt_band(s, in) ==
    LET s1 == [Call(s, "update_alt") EXCEPT !.altitude_sensor = "BARO",
                                            !.baro_alt = in.baro]
    IN  IF in.sonar_enabled
        THEN LET s2 == [s1 EXCEPT !.sonar_alt = in.sonar]
                 s3 == IF s2.baro_alt < BaroLow
                       THEN [s2 EXCEPT !.altitude_sensor = "SONAR"] ELSE s2
                 s4 == IF s3.sonar_alt > SonarHigh /\ s3.sonar_alt < SonarHigh + 50
                       THEN [s3 EXCEPT !.altitude_sensor = "BARO"] ELSE s3
             IN  IF s4.altitude_sensor = "BARO"
                 THEN [s4 EXCEPT !.current_loc.alt = s4.baro_alt + s4.home.alt]
                 ELSE LET s5 == [s4 EXCEPT !.sonar_alt = Min(@, SonarHigh)]
                      IN  [s5 EXCEPT !.current_loc.alt = s5.sonar_alt + s5.home.alt]
        ELSE [s1 EXCEPT !.current_loc.alt = s1.baro_alt + s1.home.alt]

update_alt(s, in) ==
    LET s1 == [Call(s, "update_alt") EXCEPT !.altitude_sensor = "BARO",
                                            !.baro_alt = in.baro]
    IN  IF in.sonar_enabled
        THEN LET s2 == [s1 EXCEPT !.sonar_alt = in.sonar]
                 s3 == IF s2.baro_alt < BaroLow
                       THEN [s2 EXCEPT !.altitude_sensor = "SONAR"] ELSE s2
                 s4 == IF s3.sonar_alt > SonarHigh
                       THEN [s3 EXCEPT !.altitude_sensor = "BARO"] ELSE s3
             IN  IF s4.altitude_sensor = "BARO"
                 THEN [s4 EXCEPT !.current_loc.alt = s4.baro_alt + s4.home.alt]
                 ELSE LET s5 == [s4 EXCEPT !.sonar_alt = Min(@, SonarHigh)]
                      IN  [s5 EXCEPT !.current_loc.alt = s5.sonar_alt + s5.home.alt]
        ELSE [s1 EXCEPT !.current_loc.alt = s1.baro_alt + s1.home.alt]

----------------------------------------------------------------------------
(* slow_loop *)

\* Mutant of slow_case0: the offsets are saved whatever the throttle.
slow_case0_any_throttle(s, in) ==
    LET s1 == Call([s EXCEPT !.slow_loopCounter = @ + 1,
                             !.superslow_loopCounter = @ + 1], "slow case 0")
    IN  IF s1.superslow_loopCounter > CompassSavePeriod /\ in.compass_enabled
        THEN [Call(s1, "compass.save_offsets") EXCEPT !.superslow_loopCounter = 0]
        ELSE s1

slow_case0(s, in) ==
    LET s1 == Call([s EXCEPT !.slow_loopCounter = @ + 1,
                             !.superslow_loopCounter = @ + 1], "slow case 0")
    IN  IF s1.superslow_loopCounter > CompassSavePeriod
           /\ s1.rc.rc_3 = 0 /\ in.compass_enabled
        THEN [Call(s1, "compass.save_offsets") EXCEPT !.superslow_loopCounter = 0]
        ELSE s1

\* Mutant of slow_case1: the slow counter is not advanced.
slow_case1_stuck(s, in) ==
    set_mode(CallAll(s, <<"slow case 1", "read_control_switch">>),
             IF in.switch = "keep" THEN s.control_mode ELSE in.switch)

slow_case1(s, in) ==
    set_mode(CallAll([s EXCEPT !.slow_loopCounter = @ + 1],
                     <<"slow case 1", "read_control_switch">>),
             IF in.switch = "keep" THEN s.control_mode ELSE in.switch)

slow_case2(s) ==
    CallAll([s EXCEPT !.slow_loopCounter = 0],
            <<"slow case 2", "update_events", "update_motor_light">>)

slow_loop(s, in) ==
    CASE s.slow_loopCounter = 0 -> slow_case0(s, in)
      [] s.slow_loopCounter = 1 -> slow_case1(s, in)
      [] s.slow_loopCounter = 2 -> slow_case2(s)
      [] OTHER -> [s EXCEPT !.slow_loopCounter = 0]

----------------------------------------------------------------------------
(* medium_loop *)

\* Mutant of medium_case0: the driver is still polled once the counter is 0.
medium_case0_polls(s, in) ==
    LET s1 == Call([s EXCEPT !.medium_loopCounter = @ + 1], "case 0")
    IN  update_GPS(IF s1.GPS_failure_counter = 0
                   THEN [s1 EXCEPT !.GPS_disabled = TRUE] ELSE s1, in.d)

medium_case0(s, in) ==
    LET s1 == Call([s EXCEPT !.medium_loopCounter = @ + 1], "case 0")
        s2 == IF s1.GPS_failure_counter > 0
              THEN update_GPS(s1, in.d)
              ELSE IF s1.GPS_failure_counter = 0
                   THEN [s1 EXCEPT !.GPS_disabled = TRUE]
                   ELSE s1
    IN  IF in.compass_enabled THEN Call(s2, "compass.read") ELSE s2

\* Mutant of medium_case1: new_data is left set.
medium_case1_no_clear(s, in) ==
    LET s1 == Call([s EXCEPT !.medium_loopCounter = @ + 1], "case 1")
    IN  IF s1.control_mode = "SIMPLE" THEN s1
        ELSE IF s1.control_mode = "FBW" THEN s1
        ELSE LET s2 == IF s1.g_gps.new_data
                       THEN navigate(s1, in.dist)
                       ELSE s1
             IN  IF s2.wp_distance < LoiterRadius
                 THEN calc_loiter_nav(s2)
                 ELSE calc_waypoint_nav(s2)

medium_case1(s, in) ==
    LET s1 == Call([s EXCEPT !.medium_loopCounter = @ + 1], "case 1")
    IN  IF s1.control_mode = "SIMPLE" THEN s1
        ELSE IF s1.control_mode = "FBW" THEN s1
        ELSE LET s2 == IF s1.g_gps.new_data
                       THEN navigate(Call([s1 EXCEPT !.g_gps.new_data = FALSE],
                                          "new_data = false"), in.dist)
                       ELSE s1
             IN  IF s2.wp_distance < LoiterRadius
                 THEN calc_loiter_nav(s2)
                 ELSE calc_waypoint_nav(s2)

medium_case2(s, in) ==
    LET s1 == Call([s EXCEPT !.medium_loopCounter = @ + 1], "case 2")
        s2 == update_alt(s1, in)
    IN  IF s2.control_mode = "AUTO" \/ s2.control_mode = "GCS_AUTO"
        THEN Call(s2, "update_commands")
        ELSE s2

medium_case3(s) ==
    Call(Call([s EXCEPT !.medium_loopCounter = @ + 1], "case 3"), "send_message(MSG_ATTITUDE)")

\* Mutant of medium_case4: the counter is incremented instead of reset.
medium_case4_increments(s, in) ==
    LET s1 == Call([s EXCEPT !.medium_loopCounter = @ + 1], "case 4")
        s2 == Call(Call(s1, "read_trim_switch"), "arm_motors")
    IN  slow_loop(Call(s2, "slow_loop"), in)

medium_case4(s, in) ==
    LET s1 == Call([s EXCEPT !.medium_loopCounter = 0], "case 4")
        s2 == Call(Call(s1, "read_trim_switch"), "arm_motors")
    IN  slow_loop(Call(s2, "slow_loop"), in)

medium_loop(s, in) ==
    LET s0 == [s EXCEPT !.rc = in.rc, !.nav_out = in.nav,
                        !.calls = <<"read_radio", "update_trig">>]
        s1 == CASE s0.medium_loopCounter = 0 -> medium_case0(s0, in)
                [] s0.medium_loopCounter = 1 -> medium_case1(s0, in)
                [] s0.medium_loopCounter = 2 -> medium_case2(s0, in)
                [] s0.medium_loopCounter = 3 -> medium_case3(s0)
                [] s0.medium_loopCounter = 4 -> medium_case4(s0, in)
                [] OTHER -> [s0 EXCEPT !.medium_loopCounter = 0]
        s2 == Call(Call(s1, "calc_bearing_error"), "gcs.update")
    IN  IF in.gcs = "keep" THEN s2 ELSE set_mode(s2, in.gcs)

----------------------------------------------------------------------------
(* update_current_flight_mode and fast_loop *)

mode_AUTO(s) ==
    CallAll(control_nav_mixer(Call(s, "auto_yaw")),
            <<"output_stabilize_roll", "output_stabilize_pitch", "output_auto_throttle">>)

\* Mutant of AcroRate: rate control only beyond the trigger.
AcroRate_beyond(control_in) == Abs(control_in) > ACRO_RATE_TRIGGER

\* the test that hands an ACRO axis to rate control
AcroRate(control_in) == Abs(control_in) >= ACRO_RATE_TRIGGER

mode_ACRO(s) ==
    LET s0 == [s EXCEPT !.nav_pitch = 0, !.nav_roll = 0]
        s1 == control_nav_mixer(CallAll(s0, <<"output_manual_yaw",
                                              "output_manual_throttle">>))
        s2 == IF AcroRate(s1.rc.rc_1)
              THEN Call(s1, "output_rate_roll")
              ELSE Call(s1, "output_stabilize_roll")
    IN  IF AcroRate(s2.rc.rc_2)
        THEN Call(s2, "output_rate_pitch")
        ELSE Call(s2, "output_stabilize_pitch")

\* Mutant of mode_STABILIZE: the navigation targets are not cleared.
mode_STABILIZE_keeps_nav(s) ==
    CallAll(control_nav_mixer(CallAll(s, <<"output_manual_yaw",
                                           "output_manual_throttle">>)),
            <<"output_stabilize_roll", "output_stabilize_pitch">>)

mode_STABILIZE(s) ==
    LET s0 == [s EXCEPT !.nav_pitch = 0, !.nav_roll = 0]
    IN  CallAll(control_nav_mixer(CallAll(s0, <<"output_manual_yaw",
                                                "output_manual_throttle">>)),
                <<"output_stabilize_roll", "output_stabilize_pitch">>)

\* the output stage of SIMPLE and FBW
FbwOutputs(s) ==
    CallAll(fbw_nav_mixer(CallAll(s, <<"output_manual_yaw", "output_manual_throttle">>)),
            <<"output_stabilize_roll", "output_stabilize_pitch">>)

\* Mutant of simple_recompute: the bearing is offset by the current heading.
simple_recompute_yaw(s) ==
    LET s1 == [s EXCEPT !.fbw_timer = 0,
                        !.current_loc.lat = 0,
                        !.current_loc.lng = 0,
                        !.next_WP.lng = TruncDiv(s.rc.rc_1 * 4, 10),
                        !.next_WP.lat = -TruncDiv(s.rc.rc_2 * 4, 10)]
        s2 == [s1 EXCEPT !.nav_bearing =
                   wrap_360(get_bearing(s1.current_loc, s1.next_WP) + s1.yaw_sensor)]
        s3 == [s2 EXCEPT !.wp_distance = get_distance(s2.current_loc, s2.next_WP)]
    IN  calc_waypoint_nav(CallAll(s3, <<"get_bearing", "get_distance",
                                        "calc_bearing_error">>))

simple_recompute(s) ==
    LET s1 == [s EXCEPT !.fbw_timer = 0,
                        !.current_loc.lat = 0,
                        !.current_loc.lng = 0,
                        !.next_WP.lng = TruncDiv(s.rc.rc_1 * 4, 10),
                        !.next_WP.lat = -TruncDiv(s.rc.rc_2 * 4, 10)]
        s2 == [s1 EXCEPT !.nav_bearing =
                   wrap_360(get_bearing(s1.current_loc, s1.next_WP)
                            + s1.initial_simple_bearing)]
        s3 == [s2 EXCEPT !.wp_distance = get_distance(s2.current_loc, s2.next_WP)]
    IN  calc_waypoint_nav(CallAll(s3, <<"get_bearing", "get_distance",
                                        "calc_bearing_error">>))

mode_SIMPLE(s) ==
    LET s1 == [s EXCEPT !.fbw_timer = (@ + 1) % Byte]
        s2 == IF s1.fbw_timer > SimpleGate THEN simple_recompute(s1) ELSE s1
    IN  FbwOutputs(s2)

fbw_recompute(s) ==
    LET s1 == [s EXCEPT !.fbw_timer = 0]
        s2 == IF s1.GPS_disabled
              THEN [s1 EXCEPT !.home.lat = 0, !.current_loc.lat = 0,
                              !.home.lng = 0, !.current_loc.lng = 0]
              ELSE s1
        s3 == [s2 EXCEPT !.next_WP.lng = s2.home.lng + TruncDiv(s2.rc.rc_1, 2),
                         !.next_WP.lat = s2.home.lat - TruncDiv(s2.rc.rc_2, 2)]
    IN  calc_loiter_nav(s3)

mode_FBW(s) ==
    LET s1 == [s EXCEPT !.fbw_timer = (@ + 1) % Byte]
        s2 == IF s1.fbw_timer > FbwGate THEN fbw_recompute(s1) ELSE s1
    IN  FbwOutputs(s2)

mode_ALT_HOLD(s) ==
    LET s1 == [s EXCEPT !.nav_pitch = 0, !.nav_roll = 0,
                        !.next_WP.alt = Max(s.home.alt + s.rc.rc_3, AltHoldFloor)]
    IN  CallAll(control_nav_mixer(CallAll(s1, <<"output_manual_yaw",
                                                "output_auto_throttle">>)),
                <<"output_stabilize_roll", "output_stabilize_pitch">>)

mode_RTL(s) ==
    CallAll(control_nav_mixer(CallAll(s, <<"auto_yaw", "output_auto_throttle">>)),
            <<"output_stabilize_roll", "output_stabilize_pitch">>)

mode_LOITER(s) ==
    CallAll(control_nav_mixer(CallAll(s, <<"output_manual_yaw",
                                           "output_auto_throttle">>)),
            <<"output_stabilize_roll", "output_stabilize_pitch">>)

update_current_flight_mode(s) ==
    IF s.control_mode = "AUTO"
    THEN mode_AUTO(s)
    ELSE CASE s.control_mode = "ACRO"      -> mode_ACRO(s)
           [] s.control_mode = "STABILIZE" -> mode_STABILIZE(s)
           [] s.control_mode = "SIMPLE"    -> mode_SIMPLE(s)
           [] s.control_mode = "FBW"       -> mode_FBW(s)
           [] s.control_mode = "ALT_HOLD"  -> mode_ALT_HOLD(s)
           [] s.control_mode = "RTL"       -> mode_RTL(s)
           [] s.control_mode = "LOITER"    -> mode_LOITER(s)
           [] OTHER -> s

\* Mutant of fast_loop: the servos are written before the mode is evaluated.
fast_loop_servos_first(s, delta) ==
    LET s0 == [s EXCEPT !.calls = <<"read_AHRS">>]
        s1 == IF delta > s0.G_Dt_max THEN [s0 EXCEPT !.G_Dt_max = delta] ELSE s0
    IN  update_current_flight_mode(Call(s1, "set_servos_4"))

fast_loop(s, delta) ==
    LET s0 == [s EXCEPT !.calls = <<"read_AHRS">>]
        s1 == IF delta > s0.G_Dt_max THEN [s0 EXCEPT !.G_Dt_max = delta] ELSE s0
        s2 == update_current_flight_mode(s1)
    IN  Call(s2, "set_servos_4")

\* 1Hz loop
super_slow_loop(s) ==
    CallAll(s, <<"super_slow_loop", "send_message(MSG_HEARTBEAT)">>)

\* resetPerfData(), after the performance report.
resetPerfData(s) == [Call(s, "resetPerfData") EXCEPT !.G_Dt_max = 0]

----------------------------------------------------------------------------
(* Environments: the values the external collaborators may deliver *)

\* The inputs of one medium_loop call from state s.  A collaborator the call
\* does not consult (the GPS driver outside case 0, the barometer outside
\* case 2, the mode switch outside slow case 1) delivers nothing.
Inputs(env, s) ==
    [d : IF s.medium_loopCounter = 0 THEN env.fixes ELSE {NoMsg},
     rc : env.sticks,
     switch : IF s.medium_loopCounter = 4 /\ s.slow_loopCounter = 1
              THEN env.switch ELSE {"keep"},
     gcs : env.gcs,
     dist : IF s.medium_loopCounter = 1 THEN env.dists ELSE {0},
     baro : IF s.medium_loopCounter = 2 THEN env.baro ELSE {0},
     sonar : IF s.medium_loopCounter = 2 THEN env.sonar ELSE {0},
     sonar_enabled : IF s.medium_loopCounter = 2 THEN env.sonar_enabled ELSE {FALSE},
     nav : IF s.medium_loopCounter = 1 THEN env.nav ELSE {s.nav_out},
     compass_enabled : IF s.medium_loopCounter = 4 /\ s.slow_loopCounter = 0
                       THEN env.compass_enabled ELSE {TRUE}]

EnvSched ==
    [fixes |-> {Fix(1)}, sticks |-> {Sticks(0, 0, 0)}, switch |-> {"keep"},
     gcs |-> {"keep"}, dists |-> {2000}, baro |-> {100}, sonar |-> {0},
     sonar_enabled |-> {FALSE}, compass_enabled |-> {TRUE}, nav |-> {Nav(0, 0)}, dts |-> {10}, fast_lag |-> 10, medium_lag |-> 20,
     slow_cycles |-> MaxMillis, horizon |-> MaxMillis]

\* An irregular clock: the poll loop is called early (3 ms), on time (10 ms)
\* and after a stall of several periods (50 ms).
EnvPoll ==
    [fixes |-> {Fix(1)}, sticks |-> {Sticks(0, 0, 0)}, switch |-> {"keep"},
     gcs |-> {"keep"}, dists |-> {2000}, baro |-> {100}, sonar |-> {0},
     sonar_enabled |-> {FALSE}, compass_enabled |-> {TRUE}, nav |-> {Nav(0, 0)}, dts |-> {3, 10, 50},
     fast_lag |-> MaxPollMillis, medium_lag |-> MaxPollMillis,
     slow_cycles |-> MaxPollMillis, horizon |-> MaxPollMillis]

\* A clock that advances by one fast period or stalls for 300 ms.
EnvStall ==
    [fixes |-> {Fix(1)}, sticks |-> {Sticks(0, 0, 0)}, switch |-> {"keep"},
     gcs |-> {"keep"}, dists |-> {2000}, baro |-> {100}, sonar |-> {0},
     sonar_enabled |-> {FALSE}, compass_enabled |-> {TRUE}, nav |-> {Nav(0, 0)},
     dts |-> {10, 300}, fast_lag |-> 10, medium_lag |-> 20,
     slow_cycles |-> MaxStallMillis, horizon |-> MaxStallMillis]

EnvGPS ==
    [fixes |-> {NoMsg, NoLock, Fix(0), Fix(1)}, sticks |-> {Sticks(0, 0, 0)},
     switch |-> {"keep", "SIMPLE", "FBW"},
     gcs |-> {"keep"}, dists |-> {2000}, baro |-> {100}, sonar |-> {0},
     sonar_enabled |-> {FALSE}, compass_enabled |-> {TRUE}, nav |-> {Nav(0, 0)}, dts |-> {}, fast_lag |-> 0, medium_lag |-> 0,
     slow_cycles |-> MaxSlowCycles]

\* Ground start followed by the loss of the GPS lock, in STABILIZE or FBW.
EnvHome ==
    [fixes |-> {NoLock, Fix(1)}, sticks |-> {Sticks(0, 0, 0)},
     switch |-> {"keep", "FBW"},
     gcs |-> {"keep"}, dists |-> {2000}, baro |-> {100}, sonar |-> {0},
     sonar_enabled |-> {FALSE}, compass_enabled |-> {TRUE}, nav |-> {Nav(0, 0)},
     dts |-> {}, fast_lag |-> 0, medium_lag |-> 0, slow_cycles |-> MaxHomeSlowCycles]

EnvMode ==
    [fixes |-> {Fix(1)},
     sticks |-> {Sticks(a, b, 0) : a \in {0, 4500}, b \in {0, -4500}},
     switch |-> {"keep"} \cup FlightModes, gcs |-> {"keep"},
     dists |-> {2000}, baro |-> {100}, sonar |-> {0}, sonar_enabled |-> {FALSE},
     compass_enabled |-> {TRUE}, nav |-> {Nav(0, 0)}, dts |-> {}, fast_lag |-> 0, medium_lag |-> 0,
     slow_cycles |-> MaxModeSlowCycles]

\* Barometer and sonar readings around the two thresholds, sonar fitted or not.
EnvAlt ==
    [fixes |-> {Fix(1)}, sticks |-> {Sticks(0, 0, 0)}, switch |-> {"keep"},
     gcs |-> {"keep"}, dists |-> {2000},
     baro |-> {100, 500, BaroLow - 1, BaroLow, BaroLow + 1},
     sonar |-> {0, 300, SonarHigh - 1, SonarHigh, SonarHigh + 1, 650},
     sonar_enabled |-> BOOLEAN, compass_enabled |-> {TRUE}, nav |-> {Nav(0, 0)}, dts |-> {},
     fast_lag |-> 0, medium_lag |-> 0, slow_cycles |-> MaxAltSlowCycles]

\* STABILIZE and ACRO flown with the sticks centred, at the rate trigger and
\* beyond it, the navigation algorithms working out zero or non-zero targets
\* inside and outside the loiter radius.
EnvManual ==
    [fixes |-> {Fix(1)},
     sticks |-> {Sticks(a, b, 0) : a \in {0, ACRO_RATE_TRIGGER, 4500},
                                   b \in {0, -ACRO_RATE_TRIGGER}},
     switch |-> {"keep", "ACRO", "STABILIZE"}, gcs |-> {"keep"},
     dists |-> {100, 2000}, baro |-> {100}, sonar |-> {0}, sonar_enabled |-> {FALSE},
     compass_enabled |-> {TRUE}, nav |-> {Nav(0, 0), Nav(1500, -1500)}, dts |-> {},
     fast_lag |-> 0, medium_lag |-> 0, slow_cycles |-> MaxManualSlowCycles]

\* The driver silent, without lock or delivering fixes, the pilot switching
\* between modes that navigate and modes that do not.
EnvNav ==
    [fixes |-> {NoMsg, NoLock, Fix(1)}, sticks |-> {Sticks(0, 0, 0)},
     switch |-> {"keep", "SIMPLE", "FBW", "LOITER"}, gcs |-> {"keep"},
     dists |-> {2000}, baro |-> {100}, sonar |-> {0}, sonar_enabled |-> {FALSE},
     compass_enabled |-> {TRUE}, nav |-> {Nav(0, 0)}, dts |-> {},
     fast_lag |-> 0, medium_lag |-> 0, slow_cycles |-> MaxNavSlowCycles]

\* Seven minutes and more of the slow tier, the throttle at zero or raised,
\* the compass enabled or disabled by its parameter.
EnvCompass ==
    [fixes |-> {Fix(1)}, sticks |-> {Sticks(0, 0, 0), Sticks(0, 0, 500)},
     switch |-> {"keep"}, gcs |-> {"keep"},
     dists |-> {2000}, baro |-> {100}, sonar |-> {0}, sonar_enabled |-> {FALSE},
     compass_enabled |-> BOOLEAN, nav |-> {Nav(0, 0)}, dts |-> {},
     fast_lag |-> 0, medium_lag |-> 0, slow_cycles |-> MaxCompassCycles]

\* SIMPLE and FBW flown with the stick centred or deflected, the GPS
\* delivering fixes or silent.
EnvRate ==
    [fixes |-> {NoMsg, Fix(1)},
     sticks |-> {Sticks(0, 0, 0), Sticks(4500, -4500, 0)},
     switch |-> {"keep", "SIMPLE", "FBW"}, gcs |-> {"keep"},
     dists |-> {2000}, baro |-> {100}, sonar |-> {0}, sonar_enabled |-> {FALSE},
     compass_enabled |-> {TRUE}, nav |-> {Nav(0, 0)}, dts |-> {}, fast_lag |-> 0, medium_lag |-> 0,
     slow_cycles |-> MaxRateSlowCycles]

\* SIMPLE flown with the stick centred, fully forward or fully right, the
\* vehicle turning between north, east and west.
EnvSimple ==
    [fixes |-> {Fix(1)},
     sticks |-> {Sticks(0, 0, 0), Sticks(4500, 0, 0), Sticks(0, -4500, 0)},
     switch |-> {"keep", "SIMPLE"}, gcs |-> {"keep"},
     dists |-> {2000}, baro |-> {100}, sonar |-> {0}, sonar_enabled |-> {FALSE},
     compass_enabled |-> {TRUE}, nav |-> {Nav(0, 0)}, dts |-> {}, fast_lag |-> 0, medium_lag |-> 0,
     headings |-> {0, 9000, 27000},
     slow_cycles |-> MaxSimpleSlowCycles]

----------------------------------------------------------------------------
(* Initial state: the initialisers of the globals *)

Init ==
    /\ millis = 0 /\ fast_loopTimer = 0 /\ medium_loopTimer = 0 /\ perf_mon_timer = 0
    /\ delta_ms_fast_loop = 0 /\ delta_ms_medium_loop = 0 /\ mainLoop_count = 0
    /\ G_Dt_max = 0 /\ counter_one_herz = 0 /\ pc = "fast"
    /\ medium_loopCounter = 0 /\ slow_loopCounter = 0 /\ superslow_loopCounter = 0
    /\ GPS_failure_counter = GpsFailureMax /\ GPS_disabled = FALSE
    /\ ground_start_count = GroundStartFixes
    /\ g_gps = [new_data |-> FALSE, fix |-> FALSE, latitude |-> 0, longitude |-> 0,
                altitude |-> 0]
    /\ current_loc = Loc(0, 0, 0) /\ home = Loc(0, 0, 0) /\ next_WP = Loc(0, 0, 0)
    /\ wp_distance = 0
    /\ altitude_sensor = "BARO" /\ baro_alt = 0 /\ sonar_alt = 0
    /\ control_mode = "STABILIZE" /\ fbw_timer = 0 /\ rc = Sticks(0, 0, 0)
    /\ yaw_sensor = 0 /\ initial_simple_bearing = 0 /\ nav_bearing = 0
    /\ nav_roll = 0 /\ nav_pitch = 0 /\ nav_out = Nav(0, 0) /\ mixer_nav = <<0, 0>>
    /\ op = "boot" /\ calls = <<>> /\ drv = Idle /\ init_home_calls = 0
    /\ med_hist = <<>> /\ slow_hist = <<>> /\ sonar_on = FALSE /\ sweep_hist = <<>>
    /\ chatter = 0
    /\ since_save = 0 /\ saves = 0 /\ slow0 = NoSlow0
    /\ unserved = FALSE /\ handoff = NoPhase
    /\ fail_run = 0 /\ good_run = 0
    /\ medium_since_super = 0 /\ super_gap = 0 /\ super_runs = 0
    /\ fast_entry = -1 /\ medium_entry = -1
    /\ fast_since_tick = 0 /\ medium_since_tick = 0 /\ fast_elapsed = 0
    /\ sub_stay = -1 /\ sub_gap = 0
    /\ unselected_mask = {} /\ connected = FALSE /\ xp_sent = <<>>
    /\ xp_millis = 0 /\ last_data_time_ms = 0 /\ xplane_frame_time = 0
    /\ time_now_us = 0 /\ time_base_us = 0 /\ last_send_time_us = 0
    /\ report = [data_count |-> 0, frame_count |-> 0, last_report_ms |-> 0]
    /\ xp_updates = 0
    /\ xp_call = NoCall /\ usel_named = [once |-> {}, twice |-> {}]

----------------------------------------------------------------------------
(* Observation of a medium_loop call from state s with input in *)

Range(q) == {q[i] : i \in 1..Len(q)}

CaseName(k) == <<"case 0", "case 1", "case 2", "case 3", "case 4">>[k + 1]

PhasesRun(cs) == {k \in 0..4 : CaseName(k) \in Range(cs)}

LastFive(q) == IF Len(q) > 5 THEN Tail(q) ELSE q

SlowCaseName(k) == <<"slow case 0", "slow case 1", "slow case 2">>[k + 1]

\* what a medium_loop call did of the slow tier
SlowRun(cs) ==
    [cases |-> {k \in 0..2 : SlowCaseName(k) \in Range(cs)},
     dispatched |-> "slow_loop" \in Range(cs),
     switch |-> "read_control_switch" \in Range(cs),
     phase |-> PhasesRun(cs)]

LastFifteen(q) == IF Len(q) > 15 THEN Tail(q) ELSE q

GpsPolled(s) == s.medium_loopCounter = 0 /\ s.GPS_failure_counter > 0

GpsGot(s, in) ==
    /\ GpsPolled(s)
    /\ GPS_update(s.g_gps, in.d).new_data
    /\ GPS_update(s.g_gps, in.d).fix

GpsFed(s, in) ==
    GpsPolled(s) /\ in.d.msg /\ in.d.fix /\ in.d.latitude # 0

\* The sonar sweep: barometric altitude held at 500, the sonar fitted, its
\* readings starting at 0 and rising from one update_alt call to the next.
SweepBaro == 500

SweepNext(s, in, r) ==
    LET held == in.sonar_enabled /\ in.baro = SweepBaro
    IN  IF held /\ sweep_hist # <<>> /\ in.sonar > s.sonar_alt
        THEN IF r.altitude_sensor = sweep_hist[Len(sweep_hist)]
             THEN sweep_hist
             ELSE Append(sweep_hist, r.altitude_sensor)
        ELSE IF held /\ in.sonar = 0 THEN <<r.altitude_sensor>>
        ELSE <<>>

\* The barometer alternation: the sonar fitted and reading below 600 at this
\* update_alt call and at the one before, the barometric altitude going from
\* just below 550 to just above it or back.
Alternates(s, in) ==
    /\ in.sonar_enabled /\ in.sonar < SonarHigh
    /\ sonar_on /\ s.sonar_alt < SonarHigh
    /\ {s.baro_alt, in.baro} = {BaroLow - 1, BaroLow + 1}

ChatterNext(s, in, r) ==
    IF Alternates(s, in) /\ r.altitude_sensor # s.altitude_sensor
    THEN Min(chatter + 1, ChatterCap)
    ELSE 0

ObserveMedium(s, in, r) ==
    /\ op' = "medium"
    /\ drv' = IF s.medium_loopCounter = 0
              THEN [fix |-> in.d, failure_counter |-> s.GPS_failure_counter,
                    ground_start_count |-> s.ground_start_count,
                    init_home_calls |-> s.init_home_calls]
              ELSE Idle
    /\ med_hist' = LastFive(Append(med_hist, PhasesRun(r.calls)))
    /\ slow_hist' = LastFifteen(Append(slow_hist, SlowRun(r.calls)))
    /\ sonar_on' = IF s.medium_loopCounter = 2 THEN in.sonar_enabled ELSE sonar_on
    /\ sweep_hist' = IF s.medium_loopCounter = 2 THEN SweepNext(s, in, r) ELSE sweep_hist
    /\ unserved' = IF "navigate" \in Range(r.calls) THEN FALSE
                   ELSE IF GpsPolled(s) /\ in.d.msg THEN TRUE
                   ELSE unserved
    /\ handoff' = IF s.medium_loopCounter = 1
                  THEN [phase |-> TRUE, new_data |-> s.g_gps.new_data,
                        unserved |-> unserved]
                  ELSE NoPhase
    /\ since_save' = IF "compass.save_offsets" \in Range(r.calls) THEN 0
                     ELSE IF "slow case 0" \in Range(r.calls) THEN since_save + 1
                     ELSE since_save
    /\ saves' = IF "compass.save_offsets" \in Range(r.calls) THEN Min(saves + 1, 2)
                ELSE saves
    /\ slow0' = IF "slow case 0" \in Range(r.calls)
                THEN [ran |-> TRUE, compass_enabled |-> in.compass_enabled,
                      cycles |-> since_save + 1]
                ELSE NoSlow0
    /\ chatter' = IF s.medium_loopCounter = 2 THEN ChatterNext(s, in, r) ELSE chatter
    /\ sub_stay' = IF r.control_mode # s.control_mode THEN -1 ELSE sub_stay
    /\ sub_gap' = 0
    /\ fail_run' = IF s.medium_loopCounter # 0 THEN fail_run
                   ELSE IF GpsGot(s, in) THEN 0
                   ELSE Min(fail_run + 1, RunCap)
    /\ good_run' = IF s.medium_loopCounter # 0 THEN good_run
                   ELSE IF ~GpsFed(s, in) THEN 0
                   ELSE IF s.ground_start_count = GroundStartFixes THEN 1
                   ELSE IF good_run > 0 THEN Min(good_run + 1, RunCap)
                   ELSE 0

----------------------------------------------------------------------------
(* Actions that call the tiers directly *)

CallFast ==
    /\ Commit(fast_loop(S, delta_ms_fast_loop))
    /\ op' = "fast"
    /\ drv' = Idle
    /\ UNCHANGED <<timerVars, med_hist, slow_hist, altObs, navObs, saveObs, fail_run, good_run,
                   medium_since_super, super_gap, super_runs, schedObs, subObs, xpVars>>

\* fast_loop with the heading its read_AHRS() finds
CallFastAt(env) ==
    /\ \E y \in env.headings : Commit(fast_loop(AHRS(S, y), delta_ms_fast_loop))
    /\ op' = "fast"
    /\ drv' = Idle
    /\ UNCHANGED <<timerVars, med_hist, slow_hist, altObs, navObs, saveObs, fail_run, good_run,
                   medium_since_super, super_gap, super_runs, schedObs, subObs, xpVars>>

\* the virtual-waypoint recompute of SIMPLE or FBW ran in the fast tick r
Recomputed(r) ==
    \/ r.control_mode = "SIMPLE" /\ "calc_waypoint_nav" \in Range(r.calls)
    \/ r.control_mode = "FBW" /\ "calc_loiter_nav" \in Range(r.calls)

\* fast_loop, its recomputes counted
CallFastCounted ==
    LET r == fast_loop(S, delta_ms_fast_loop)
    IN  /\ Commit(r)
        /\ sub_gap' = IF Recomputed(r) /\ sub_stay >= 0 THEN sub_stay + 1 ELSE 0
        /\ sub_stay' = IF Recomputed(r) THEN 0
                       ELSE IF sub_stay >= 0 THEN sub_stay + 1 ELSE -1
        /\ op' = "fast"
        /\ drv' = Idle
        /\ UNCHANGED <<timerVars, med_hist, slow_hist, altObs, navObs, saveObs, fail_run, good_run,
                       medium_since_super, super_gap, super_runs, schedObs, xpVars>>

CallMedium(env) ==
    /\ superslow_loopCounter < env.slow_cycles
    /\ \E in \in Inputs(env, S) :
          LET r == medium_loop(S, in)
          IN  Commit(r) /\ ObserveMedium(S, in, r)
    /\ UNCHANGED <<timerVars, medium_since_super, super_gap, super_runs, schedObs, xpVars>>

----------------------------------------------------------------------------
(* loop(): the two rate gates, polled in turn over the millisecond clock.   *)
(* The clock and the timers are unsigned long; the differences the gates    *)
(* take are exact under wrap-around, and the clock here stays below 2^31.   *)

\* The clock advances by dt while loop() is away; the tiers are never left
\* waiting for longer than the environment's lags or one such advance.
Elapse(env) ==
    /\ \E dt \in env.dts :
          /\ millis + dt <= env.horizon
          /\ millis + dt - fast_loopTimer <= Max(env.fast_lag, dt)
          /\ millis + dt - medium_loopTimer <= Max(env.medium_lag, dt)
          /\ millis' = millis + dt
    /\ op' = "elapse"
    /\ fast_since_tick' = 0 /\ medium_since_tick' = 0
    /\ UNCHANGED <<fast_loopTimer, medium_loopTimer, perf_mon_timer,
                   delta_ms_fast_loop, delta_ms_medium_loop, mainLoop_count,
                   counter_one_herz, pc, coreVars, drv, med_hist, slow_hist, altObs, navObs, saveObs, fail_run,
                   good_run, medium_since_super, super_gap, super_runs,
                   fast_entry, medium_entry, fast_elapsed, subObs, xpVars>>

\* Mutant of FastDue: the gate opens one millisecond early.
FastDue_early == millis - fast_loopTimer >= FastPeriod

\* the fast tier's rate gate
FastDue == millis - fast_loopTimer > FastPeriod

\* Mutant of FastRebased: the timer advances by one period (missed periods
\* stay due).
FastRebased_period == fast_loopTimer + FastPeriod + 1

\* the value fast_loopTimer is re-based to when the gate opens
FastRebased == millis

LoopFast ==
    /\ pc = "fast"
    /\ pc' = "medium"
    /\ IF FastDue
       THEN /\ delta_ms_fast_loop' = (millis - fast_loopTimer) % Byte
            /\ fast_loopTimer' = FastRebased
            /\ mainLoop_count' = mainLoop_count + 1
            /\ Commit(fast_loop(S, delta_ms_fast_loop'))
            /\ op' = "fast"
            /\ fast_entry' = millis
            /\ fast_since_tick' = Min(fast_since_tick + 1, 2)
            /\ fast_elapsed' = millis - fast_loopTimer
       ELSE /\ UNCHANGED <<delta_ms_fast_loop, fast_loopTimer, mainLoop_count, coreVars,
                           fast_entry, fast_since_tick, fast_elapsed>>
            /\ op' = "poll"
    /\ drv' = Idle
    /\ UNCHANGED <<millis, medium_loopTimer, perf_mon_timer, delta_ms_medium_loop,
                   counter_one_herz, med_hist, slow_hist, altObs, navObs, saveObs, fail_run, good_run,
                   medium_since_super, super_gap, super_runs,
                   medium_entry, medium_since_tick, subObs, xpVars>>

LoopMediumRun(env, in) ==
    LET r1  == medium_loop(S, in)
        c   == (counter_one_herz + 1) % Byte
        r2  == IF c = OneHerz THEN super_slow_loop(r1) ELSE r1
        due == millis - perf_mon_timer > PerfPeriod /\ mainLoop_count # 0
        r3  == IF due THEN resetPerfData(r2) ELSE r2
    IN  /\ delta_ms_medium_loop' = (millis - medium_loopTimer) % Byte
        /\ medium_loopTimer' = millis
        /\ counter_one_herz' = c
        /\ mainLoop_count' = IF due THEN 0 ELSE mainLoop_count
        /\ perf_mon_timer' = IF due THEN millis ELSE perf_mon_timer
        /\ Commit(r3)
        /\ ObserveMedium(S, in, r1)
        /\ medium_since_super' = IF c = OneHerz THEN 0 ELSE medium_since_super + 1
        /\ super_gap' = IF c = OneHerz THEN medium_since_super + 1 ELSE super_gap
        /\ super_runs' = IF c = OneHerz /\ super_runs < 2 THEN super_runs + 1
                         ELSE super_runs
        /\ medium_entry' = millis
        /\ medium_since_tick' = Min(medium_since_tick + 1, 2)

LoopMedium(env) ==
    /\ pc = "medium"
    /\ pc' = "fast"
    /\ IF millis - medium_loopTimer > MediumPeriod
       THEN \E in \in Inputs(env, S) : LoopMediumRun(env, in)
       ELSE /\ UNCHANGED <<delta_ms_medium_loop, medium_loopTimer, counter_one_herz,
                           mainLoop_count, perf_mon_timer, coreVars, med_hist, slow_hist,
                           altObs, navObs, saveObs,
                           fail_run, good_run, medium_since_super, super_gap,
                           super_runs, medium_entry, medium_since_tick, subObs>>
            /\ op' = "poll"
            /\ drv' = Idle
    /\ UNCHANGED <<millis, fast_loopTimer, delta_ms_fast_loop, fast_entry, fast_since_tick,
                   fast_elapsed, xpVars>>

----------------------------------------------------------------------------
(* Simulator bridge: XPlane::select_data, receive_data, send_data and update. *)
(* A 64-bit mask is the set of the data codes (bit numbers 0..63) it has set. *)
(* The clocks stay far below 2^32 ms and 2^64 us, so no counter wraps.        *)

Codes == 0..63

\* the data codes receive_data insists on
RequiredCodes == {1, 3, 4, 8, 13, 16, 17, 20, 21, 25, 29, 37, 38, 39, 58}

\* entries of a DSEL / USEL request
SelSlots == 8

\* bytes of one data record, and of the datagram header
PktLen == 36
HeaderLen == 5

\* the data code of the record carrying X-Plane's clock
Times == 1

\* recv waits 1 ms, or 10 ms when a frame is due
ShortWait == 1
LongWait == 10

\* a measured frame time is kept when under 100 ms
FrameTimeMax == 100

\* no extrapolation beyond 0.2 s; one extrapolated step is 1 ms
ExtrapolateMs == 200
FrameTimeUs == 1000

\* the data and frame rates are printed and reset every 5 s
ReportPeriod == 5000

\* the state of the bridge as one record
X == [unselected_mask |-> unselected_mask, connected |-> connected,
      millis |-> xp_millis, last_data_time_ms |-> last_data_time_ms,
      xplane_frame_time |-> xplane_frame_time, time_now_us |-> time_now_us,
      time_base_us |-> time_base_us, last_send_time_us |-> last_send_time_us,
      report |-> report, sent |-> <<>>]

\* the set bits of a mask the loop 'for (i=0; i<64 && count<8; i++)' reaches
FirstSlots(mask) == {c \in mask : Cardinality({d \in mask : d < c}) < SelSlots}

RECURSIVE Ascending(_)
Ascending(set) ==
    IF set = {} THEN <<>>
    ELSE LET c == CHOOSE c \in set : \A d \in set : c <= d
         IN  <<c>> \o Ascending(set \ {c})

\* data[8], zero-initialised, the reached codes in its first entries
Request(marker, mask) ==
    LET named == Ascending(FirstSlots(mask))
    IN  [marker |-> marker, count |-> Len(named),
         data |-> [i \in 1..SelSlots |-> IF i <= Len(named) THEN named[i] ELSE 0]]

Send(x, pkt) == [x EXCEPT !.sent = Append(@, pkt)]

\* Mutant of Fresh: codes de-selected before are requested again.
Fresh_all(x, usel_mask) == usel_mask

\* only de-select an output once
Fresh(x, usel_mask) == usel_mask \ x.unselected_mask

select_data(x, usel_mask, sel_mask) ==
    LET x1 == IF FirstSlots(sel_mask) # {} THEN Send(x, Request("DSEL0", sel_mask)) ELSE x
        um == Fresh(x1, usel_mask)
        x2 == [x1 EXCEPT !.unselected_mask = @ \cup um]
    IN  IF FirstSlots(um) # {} THEN Send(x2, Request("USEL0", um)) ELSE x2

\* the bytes of a datagram: the header, the records, a partial record
DatagramLen(dg) == HeaderLen + PktLen * Len(dg.codes) + dg.tail

\* socket_in.recv when nothing arrives within the wait
NoDatagram == [marker |-> <<>>, codes |-> <<>>, tail |-> 0, tus |-> 0]

recv_len(dg) == IF dg = NoDatagram THEN -1 ELSE DatagramLen(dg)

DataMarker == <<"D", "A", "T", "A">>

\* Mutant of Understood: the marker is not compared.
Understood_any_marker(dg) == ~(recv_len(dg) < PktLen + HeaderLen)

\* the negation of 'len < pkt_len+5 || memcmp(pkt, "DATA", 4) != 0'
Understood(dg) ==
    ~(recv_len(dg) < PktLen + HeaderLen \/ SubSeq(dg.marker, 1, 4) # DataMarker)

data_mask(dg) == {dg.codes[i] : i \in 1..Len(dg.codes)} \cap Codes

\* how long recv may block
wait_time_ms(x) ==
    IF x.xplane_frame_time > ShortWait
       /\ x.millis + 1 >= x.last_data_time_ms + x.xplane_frame_time
    THEN LongWait ELSE ShortWait

\* recv returns at once when a datagram is queued and after the wait otherwise
recv(x, dg) ==
    [x EXCEPT !.millis = IF dg = NoDatagram THEN @ + wait_time_ms(x) ELSE @]

\* 'case Times' of the record loop; tus is data[3] * 1.0e6f
case_Times(x, tus) ==
    LET base == IF tus + x.time_base_us <= x.time_now_us
                THEN x.time_now_us - tus ELSE x.time_base_us
    IN  [x EXCEPT !.time_base_us = base, !.time_now_us = base + tus]

\* the record loop, as far as it writes the fields of X
records(x, dg) ==
    IF \E i \in 1..Len(dg.codes) : dg.codes[i] = Times THEN case_Times(x, dg.tus) ELSE x

\* the label 'failed'
failed(x) ==
    IF x.millis - x.last_data_time_ms > ExtrapolateMs
    THEN x
    ELSE [x EXCEPT !.time_now_us = @ + FrameTimeUs,
                   !.report.frame_count = @ + 1]

\* the end of the accepted path; now is the clock read at entry
accept(x, now) ==
    [x EXCEPT !.xplane_frame_time =
                  IF now > x.last_data_time_ms
                     /\ now - x.last_data_time_ms < FrameTimeMax
                  THEN now - x.last_data_time_ms ELSE @,
              !.last_data_time_ms = x.millis,
              !.report.data_count = @ + 1,
              !.report.frame_count = @ + 1]

\* receive_data: the bridge after the call, and the value returned
receive_data(x, dg) ==
    LET xr == recv(x, dg)
    IN  IF ~Understood(dg)
        THEN [x |-> failed(xr), accepted |-> FALSE]
        ELSE LET x1   == records([xr EXCEPT !.connected = TRUE], dg)
                 usel == (data_mask(dg) \ RequiredCodes) \ x1.unselected_mask
                 sel  == RequiredCodes \ data_mask(dg)
             IN  IF data_mask(dg) # RequiredCodes /\ (usel # {} \/ sel # {})
                 THEN [x |-> failed(select_data(x1, usel, sel)), accepted |-> FALSE]
                 ELSE [x |-> accept(x1, x.millis), accepted |-> TRUE]

Dref(name) == [marker |-> "DREF0", name |-> name]

\* the five DREF packets of send_data (no flap channel is configured)
send_data(x) ==
    LET names == <<"sim/operation/override/override_control_surfaces",
                   "sim/flightmodel2/wing/aileron1_deg[8]",
                   "sim/flightmodel2/wing/aileron1_deg[9]",
                   "sim/flightmodel2/wing/rudder1_deg[10]",
                   "sim/flightmodel2/wing/rudder1_deg[11]">>
    IN  [x EXCEPT !.last_send_time_us = x.millis * 1000,
                  !.sent = @ \o [i \in 1..Len(names) |-> Dref(names[i])]]

\* XPlane::update; 'after' is the bridge as receive_data left it
update(x, dg) ==
    LET r   == receive_data(x, dg)
        x1  == IF r.accepted THEN send_data(r.x) ELSE r.x
        now == x1.millis
        x2  == IF x1.report.last_report_ms = 0
               THEN [x1 EXCEPT !.report.last_report_ms = now] ELSE x1
        x3  == IF now - x2.report.last_report_ms > ReportPeriod
               THEN [x2 EXCEPT !.report = [data_count |-> 0, frame_count |-> 0,
                                           last_report_ms |-> now]]
               ELSE x2
    IN  [x |-> x3, accepted |-> r.accepted, after |-> r.x]

\* the codes a packet names in its first 'count' entries
Named(pkt) == {pkt.data[i] : i \in 1..pkt.count}

\* the codes the USEL requests among the packets name
NamedBy(pkts) ==
    UNION {Named(pkts[i]) : i \in {j \in 1..Len(pkts) : pkts[j].marker = "USEL0"}}

CommitX(x, call) ==
    /\ xp_updates' = xp_updates + (IF call.op = "receive_data" THEN 1 ELSE 0)
    /\ unselected_mask' = x.unselected_mask
    /\ connected' = x.connected
    /\ xp_millis' = x.millis
    /\ last_data_time_ms' = x.last_data_time_ms
    /\ xplane_frame_time' = x.xplane_frame_time
    /\ time_now_us' = x.time_now_us
    /\ time_base_us' = x.time_base_us
    /\ last_send_time_us' = x.last_send_time_us
    /\ report' = x.report
    /\ xp_sent' = x.sent
    /\ xp_call' = call
    /\ usel_named' = [once |-> usel_named.once \cup NamedBy(x.sent),
                      twice |-> usel_named.twice
                                   \cup (usel_named.once \cap NamedBy(x.sent))]
    /\ UNCHANGED copterVars

Datagram(m, cs, tl, tus) == [marker |-> m, codes |-> Ascending(cs), tail |-> tl, tus |-> tus]

\* masks a caller of select_data may pass
EnvXPlane ==
    [usel |-> {{}, {5}, {6}, {5, 6}, {7}, {0, 2, 5, 6, 7, 9, 10, 11, 12, 14}},
     sel |-> {{}, {1}, RequiredCodes},
     dts |-> {0}, updates |-> MaxUpdates,
     datagrams |->
        {Datagram(m, cs, tl, 0) :
             m \in {DataMarker \o <<"0">>, <<"D", "S", "E", "L", "0">>},
             cs \in {RequiredCodes, RequiredCodes \cup {5}, RequiredCodes \cup {5, 6},
                     RequiredCodes \ {1}, (RequiredCodes \ {1}) \cup {5},
                     RequiredCodes \cup {200}, {}},
             tl \in {0, 35}}]

\* a link that drops frames, repeats and resets its clock and goes quiet
EnvBridge ==
    [usel |-> {}, sel |-> {},
     dts |-> {0, 20, 200, 201, 5000}, updates |-> MaxBridgeUpdates,
     datagrams |->
        {NoDatagram,
         Datagram(<<"D", "R", "E", "F", "0">>, RequiredCodes, 0, 2000),
         Datagram(DataMarker \o <<"@">>, {}, 35, 0),
         Datagram(DataMarker \o <<"@">>, RequiredCodes \ {3}, 0, 5000),
         Datagram(DataMarker \o <<"@">>, RequiredCodes, 0, 2000)}]

XSelect(env) ==
    \E u \in env.usel, sl \in env.sel :
        CommitX(select_data(X, u, sl),
                [NoCall EXCEPT !.op = "select_data", !.usel = u, !.sel = sl,
                               !.before = unselected_mask,
                               !.had_frame = xp_call.had_frame \/ xp_call.accepted])

\* one call of update, dt milliseconds after the previous one returned, with
\* what recv finds
XUpdate(env) ==
    \E dt \in env.dts, dg \in env.datagrams :
        LET x0 == [X EXCEPT !.millis = @ + dt]
            u  == update(x0, dg)
        IN  /\ xp_updates < env.updates
            /\ CommitX(u.x,
                    [op |-> "receive_data", usel |-> {}, sel |-> {},
                     mask |-> IF DatagramLen(dg) >= PktLen + HeaderLen
                                 /\ SubSeq(dg.marker, 1, 4) = DataMarker
                              THEN data_mask(dg) ELSE {-1},
                     before |-> unselected_mask, accepted |-> u.accepted,
                     dg |-> dg,
                     age |-> recv(x0, dg).millis - last_data_time_ms,
                     had_frame |-> xp_call.had_frame \/ xp_call.accepted,
                     time |-> <<time_now_us, u.after.time_now_us>>,
                     frames |-> <<report.frame_count, u.after.report.frame_count>>,
                     datas |-> <<report.data_count, u.after.report.data_count>>])

----------------------------------------------------------------------------
(* Specifications *)

NextSched == Elapse(EnvSched) \/ LoopFast \/ LoopMedium(EnvSched)
SpecSched == Init /\ [][NextSched]_vars

NextPoll == Elapse(EnvPoll) \/ LoopFast \/ LoopMedium(EnvPoll)
SpecPoll == Init /\ [][NextPoll]_vars

NextStall == Elapse(EnvStall) \/ LoopFast \/ LoopMedium(EnvStall)
SpecStall == Init /\ [][NextStall]_vars

NextAlt == CallFast \/ CallMedium(EnvAlt)
SpecAlt == Init /\ [][NextAlt]_vars

NextSimple == CallFastAt(EnvSimple) \/ CallMedium(EnvSimple)
SpecSimple == Init /\ [][NextSimple]_vars

NextRate == CallFastCounted \/ CallMedium(EnvRate)
SpecRate == Init /\ [][NextRate]_vars

NextManual == CallFast \/ CallMedium(EnvManual)
SpecManual == Init /\ [][NextManual]_vars

NextNav == CallFast \/ CallMedium(EnvNav)
SpecNav == Init /\ [][NextNav]_vars

NextCompass == CallMedium(EnvCompass)
SpecCompass == Init /\ [][NextCompass]_vars

NextXPlane == XSelect(EnvXPlane) \/ XUpdate(EnvXPlane)
SpecXPlane == Init /\ [][NextXPlane]_vars

NextBridge == XUpdate(EnvBridge)
SpecBridge == Init /\ [][NextBridge]_vars

NextGPS == CallFast \/ CallMedium(EnvGPS)
SpecGPS == Init /\ [][NextGPS]_vars

NextHome == CallFast \/ CallMedium(EnvHome)
SpecHome == Init /\ [][NextHome]_vars

NextMode == CallFast \/ CallMedium(EnvMode)
SpecMode == Init /\ [][NextMode]_vars

----------------------------------------------------------------------------
(* Claims *)

Before(cs, a, b) == \E i, j \in 1..Len(cs) : i < j /\ cs[i] = a /\ cs[j] = b

\* the last step was a GPS phase at which the driver had a valid fix to deliver
ValidFixOffered == drv.fix.msg /\ drv.fix.fix

\* C1: the medium tier is a 5-phase round-robin: every medium_loop call runs
\* exactly one switch case, the cases follow each other in the cyclic order
\* 0,1,2,3,4,0,..., medium_loopCounter stays in 0..4, and any 5 consecutive
\* calls run each case exactly once.
C1_RoundRobin ==
    /\ medium_loopCounter \in 0..4
    /\ \A i \in 1..Len(med_hist) : Cardinality(med_hist[i]) = 1
    /\ \A i \in 1..(Len(med_hist) - 1) :
          med_hist[i + 1] = {(k + 1) % 5 : k \in med_hist[i]}
    /\ Len(med_hist) > 0 => med_hist[Len(med_hist)] = {(medium_loopCounter + 4) % 5}
    /\ (Len(med_hist) > 0 /\ Len(med_hist) < 5) => med_hist[1] = {0}
    /\ Len(med_hist) = 5 => UNION Range(med_hist) = 0..4

C1_Witness == med_hist = <<{3}, {4}, {0}, {1}, {2}>>

C4_Sticky ==
    [][GPS_disabled => (GPS_disabled' /\ GPS_failure_counter = 0
                                      /\ GPS_failure_counter' = 0)]_vars

C4_Witness == GPS_disabled /\ ValidFixOffered /\ drv.failure_counter = 0 /\ fail_run = RunCap

\* C5: from ground_start_count = 5, five consecutive valid non-zero fixes latch
\* home on the fifth fix and on no earlier one, set the altitude from that fix
\* and leave ground_start_count = 0.
C5_Original ==
    /\ good_run \in 1..4 => init_home_calls = 0
    /\ good_run >= 5 => (ground_start_count = 0 /\ init_home_calls = 1)
    /\ (good_run = 5 /\ drv.ground_start_count = 1)
          => (current_loc.alt = drv.fix.altitude /\ home.lat = drv.fix.latitude
                                                 /\ home.lng = drv.fix.longitude)

\* C6: a zero-coordinate fix processed while ground_start_count = 1 resets the
\* countdown to 5 and does not invoke init_home.
C6_Original ==
    (ValidFixOffered /\ drv.failure_counter > 0 /\ drv.fix.latitude = 0
                     /\ drv.fix.longitude = 0 /\ drv.ground_start_count = 1)
        => (ground_start_count = GroundStartFixes
            /\ init_home_calls = drv.init_home_calls)

\* C7: once ground start has completed (ground_start_count = 0) no step
\* changes home.lat or home.lng, and init_home is not invoked again.
C7_Original ==
    [][ground_start_count = 0
          => (home'.lat = home.lat /\ home'.lng = home.lng
              /\ init_home_calls' = init_home_calls)]_vars

\* C8: in every flight mode and for every pilot input, each fast tick invokes
\* output_stabilize_roll and output_stabilize_pitch before set_servos_4.
C8_Original ==
    op = "fast" => (/\ Before(calls, "output_stabilize_roll", "set_servos_4")
                    /\ Before(calls, "output_stabilize_pitch", "set_servos_4"))

\* C9: in AUTO and in GCS_AUTO alike, a fast tick performs auto_yaw,
\* control_nav_mixer, the roll and pitch stabilisation and output_auto_throttle.
C9_Original ==
    (op = "fast" /\ control_mode \in {"AUTO", "GCS_AUTO"})
        => calls = <<"read_AHRS", "auto_yaw", "control_nav_mixer",
                     "output_stabilize_roll", "output_stabilize_pitch",
                     "output_auto_throttle", "set_servos_4">>

\* C10: super_slow_loop runs once every 50 medium_loop calls for the whole run:
\* never more than 50 calls pass without it, and exactly 50 medium_loop calls
\* lie between two consecutive runs.
C10_Original ==
    /\ medium_since_super < OneHerz
    /\ super_runs >= 1 => super_gap = OneHerz

\* C11: the slow tier is dispatched only from medium phase 4 (once per 5
\* medium_loop calls) and is a 3-phase round-robin: slow_loopCounter stays in
\* 0..2, the slow cases follow each other in the order 0,1,2,0,..., and
\* read_control_switch (slow case 1) runs exactly once in any 15 consecutive
\* medium_loop calls.
SlowAt(i) == slow_hist[i].cases

Dispatches == {i \in 1..Len(slow_hist) : slow_hist[i].dispatched}

C11_SlowRoundRobin ==
    /\ slow_loopCounter \in 0..2
    /\ \A i \in 1..Len(slow_hist) :
          /\ slow_hist[i].dispatched <=> slow_hist[i].phase = {4}
          /\ Cardinality(SlowAt(i)) = IF slow_hist[i].dispatched THEN 1 ELSE 0
          /\ slow_hist[i].switch <=> SlowAt(i) = {1}
    /\ \A i, j \in Dispatches :
          (i < j /\ \A m \in Dispatches : ~(i < m /\ m < j))
              => (j = i + 5 /\ SlowAt(j) = {(k + 1) % 3 : k \in SlowAt(i)})
    /\ \A i \in Dispatches : i = Len(slow_hist) => SlowAt(i) = {(slow_loopCounter + 2) % 3}
    /\ Len(slow_hist) = 15
          => Cardinality({i \in 1..15 : slow_hist[i].switch}) = 1
    /\ Len(slow_hist) < 15
          => Cardinality({i \in 1..Len(slow_hist) : slow_hist[i].switch})
                = IF Len(slow_hist) >= 10 THEN 1 ELSE 0

C11_Witness ==
    /\ Len(slow_hist) = 15
    /\ slow_hist[15].switch
    /\ superslow_loopCounter >= 2

\* C12: fast_loop is entered only when at least 10 ms have elapsed on the
\* clock since the previous fast_loop entry, and medium_loop only when at
\* least 20 ms have elapsed since the previous medium_loop entry.
C12_RateGates ==
    [][/\ (op' = "fast" /\ fast_entry >= 0) => millis' - fast_entry >= FastPeriod + 1
       /\ (op' = "medium" /\ medium_entry >= 0)
             => millis' - medium_entry >= MediumPeriod + 1]_vars

\* the gate was polled at 3, 6 and 9 ms after an entry and opened at 12 ms
C12_Witness ==
    /\ op = "fast" /\ mainLoop_count >= 2 /\ delta_ms_fast_loop = 12
    /\ fast_entry = millis

\* C13: missed deadlines are not replayed: however long the poll loop was
\* stalled and however often loop() is then polled, each tier runs at most
\* once until the clock advances again, and a tier that runs has its timer
\* re-based to the current clock.
C13_NoCatchUp ==
    /\ fast_since_tick <= 1
    /\ medium_since_tick <= 1
    /\ op = "fast" => fast_loopTimer = millis
    /\ op = "medium" => medium_loopTimer = millis

\* after a stall of 50 ms both tiers ran once and the next pass ran neither
C13_Witness ==
    /\ delta_ms_fast_loop >= 50 /\ delta_ms_medium_loop >= 50
    /\ fast_since_tick = 1 /\ medium_since_tick = 1
    /\ op = "poll" /\ pc = "fast"
    /\ fast_loopTimer = millis /\ medium_loopTimer = millis

\* the operations update_current_flight_mode invokes
ModeOps ==
    {"auto_yaw", "control_nav_mixer", "output_stabilize_roll", "output_stabilize_pitch",
     "output_auto_throttle", "output_manual_yaw", "output_manual_throttle",
     "output_rate_roll", "output_rate_pitch", "fbw_nav_mixer", "get_bearing",
     "get_distance", "calc_bearing_error", "calc_waypoint_nav", "calc_loiter_nav"}

\* C14: a fast tick reads the attitude (read_AHRS) first, then evaluates the
\* flight mode, then writes the actuators (set_servos_4) last, each of the two
\* outer steps once, and nothing but the mode's own operations (no medium, slow
\* or super-slow tier operation) runs between them.
C14_FastOrder ==
    op = "fast" =>
        /\ Len(calls) >= 2
        /\ calls[1] = "read_AHRS"
        /\ calls[Len(calls)] = "set_servos_4"
        /\ \A i \in 2..(Len(calls) - 1) : calls[i] \in ModeOps

\* a SIMPLE tick that recomputed its navigation between the two outer steps
C14_Witness ==
    /\ op = "fast" /\ control_mode = "SIMPLE"
    /\ Before(calls, "read_AHRS", "calc_waypoint_nav")
    /\ Before(calls, "calc_waypoint_nav", "set_servos_4")

\* the last step was a medium_loop call that ran update_alt
AltUpdated == op = "medium" /\ "update_alt" \in Range(calls)

\* C15 (as stated): after update_alt with the sonar enabled the source is SONAR
\* only if the barometric altitude is below 550 and the sonar reading is below
\* 600, and BARO whenever either reading is above its threshold; with the sonar
\* disabled the source is BARO and current_loc.alt = baro_alt + home.alt.
C15_Original ==
    AltUpdated =>
        /\ (sonar_on /\ altitude_sensor = "SONAR")
              => (baro_alt < BaroLow /\ sonar_alt < SonarHigh)
        /\ (sonar_on /\ (baro_alt > BaroLow \/ sonar_alt > SonarHigh))
              => altitude_sensor = "BARO"
        /\ ~sonar_on => (altitude_sensor = "BARO"
                         /\ current_loc.alt = baro_alt + home.alt)

\* C15 (amended): as stated, except that a sonar reading of exactly 600 still
\* selects SONAR: the source is SONAR only if the barometric altitude is below
\* 550 and the sonar reading is not above 600.
C15_Amended ==
    AltUpdated =>
        /\ (sonar_on /\ altitude_sensor = "SONAR")
              => (baro_alt < BaroLow /\ sonar_alt <= SonarHigh)
        /\ (sonar_on /\ (baro_alt > BaroLow \/ sonar_alt > SonarHigh))
              => altitude_sensor = "BARO"
        /\ ~sonar_on => (altitude_sensor = "BARO"
                         /\ current_loc.alt = baro_alt + home.alt)

\* the sonar is chosen at a reading of exactly 600, after home was latched
C15_Witness ==
    /\ AltUpdated /\ sonar_on /\ altitude_sensor = "SONAR"
    /\ sonar_alt = SonarHigh /\ baro_alt = BaroLow - 1
    /\ home.alt > 0 /\ current_loc.alt = SonarHigh + home.alt

\* C16: with the barometric altitude fixed at 500 and the sonar enabled, a
\* sequence of update_alt calls whose sonar readings rise from 0 to 650 changes
\* the chosen source at most once, from SONAR to BARO.
C16_NoChatter ==
    sweep_hist \in {<<>>, <<"SONAR">>, <<"SONAR", "BARO">>}

\* a sweep that has passed 600 and reached 650
C16_Witness ==
    /\ AltUpdated /\ sweep_hist = <<"SONAR", "BARO">>
    /\ sonar_alt = 650 /\ baro_alt = SweepBaro

\* the last step was a fast tick that ran the SIMPLE recompute
SimpleRecomputed ==
    op = "fast" /\ control_mode = "SIMPLE" /\ "get_bearing" \in Range(calls)

Headings == EnvSimple.headings

\* C17: in SIMPLE mode the virtual waypoint and the navigation bearing a fast
\* tick computes do not depend on the current heading: ticks that differ only
\* in the heading read_AHRS delivers (the one of the last tick or any other)
\* yield the same next_WP and nav_bearing;
\* with initial_simple_bearing = 9000 and the stick fully forward the bearing
\* is 9000 (east) whatever the heading.
C17_HeadingIndependent ==
    /\ control_mode = "SIMPLE" =>
          LET r1 == fast_loop(S, delta_ms_fast_loop)
          IN  \A y2 \in Headings :
                  LET r2 == fast_loop(AHRS(S, y2), delta_ms_fast_loop)
                  IN  r1.nav_bearing = r2.nav_bearing /\ r1.next_WP = r2.next_WP
    /\ (SimpleRecomputed /\ initial_simple_bearing = 9000 /\ rc = Sticks(0, -4500, 0))
          => (nav_bearing = 9000 /\ next_WP.lat = 1800 /\ next_WP.lng = 0)

\* east is commanded while the vehicle itself points west
C17_Witness ==
    /\ SimpleRecomputed /\ initial_simple_bearing = 9000 /\ rc = Sticks(0, -4500, 0)
    /\ yaw_sensor = 27000 /\ nav_bearing = 9000

\* C18: a zero-coordinate fix processed while the ground-start countdown is at
\* 2..5 aborts the countdown: ground_start_count is reset to 5 instead of
\* being decremented.
C18_Original ==
    (ValidFixOffered /\ drv.failure_counter > 0 /\ drv.fix.latitude = 0
                     /\ drv.fix.longitude = 0 /\ drv.ground_start_count \in 2..5)
        => ground_start_count = GroundStartFixes

\* C19: in every flight mode a GPS phase reached with GPS_failure_counter > 0 at
\* which the driver delivers no new valid fix decrements GPS_failure_counter by
\* exactly one, and the counter never leaves 0..3.
C19_Original ==
    /\ GPS_failure_counter \in 0..GpsFailureMax
    /\ (drv # Idle /\ drv.failure_counter > 0 /\ ~ValidFixOffered)
          => GPS_failure_counter = drv.failure_counter - 1

\* the last step was a medium_loop call that ran the navigation phase
NavPhase == op = "medium" /\ "case 1" \in Range(calls)

\* C20: the navigation phase invokes exactly one of calc_loiter_nav and
\* calc_waypoint_nav: the loiter algorithm when wp_distance is below 800 or the
\* mode is LOITER, the waypoint algorithm otherwise.
C20_Original ==
    NavPhase =>
        /\ ("calc_loiter_nav" \in Range(calls)) # ("calc_waypoint_nav" \in Range(calls))
        /\ ("calc_loiter_nav" \in Range(calls))
              <=> (wp_distance < LoiterRadius \/ control_mode = "LOITER")

\* C21: altitude fusion has hysteresis: with the sonar enabled and reading
\* below 600, a barometric altitude alternating from one update_alt call to the
\* next between just below and just above 550 (549, 551, 549, ...) does not
\* make the chosen source change on every call: of two consecutive calls of
\* the alternation at most one changes the source.
C21_Original == chatter < 2

\* the last step was a fast tick that ran the recompute of the given mode
RecomputedIn(m) == op = "fast" /\ control_mode = m /\ Recomputed(S)

\* C22: while the mode stays SIMPLE, the virtual-waypoint recompute (bearing,
\* distance, calc_waypoint_nav) runs on exactly every 4th fast tick: a
\* recompute comes 4 fast ticks after the previous one, and no 4th tick
\* passes without one.
C22_Original ==
    /\ (RecomputedIn("SIMPLE") /\ sub_gap > 0) => sub_gap = 4
    /\ (op = "fast" /\ control_mode = "SIMPLE" /\ ~Recomputed(S)) => sub_stay < 4

\* C23: while the mode stays FBW, the home-anchored recompute (next_WP update
\* and calc_loiter_nav) runs on exactly every 10th fast tick; with
\* GPS_disabled true it uses a zero anchor, so next_WP is the stick offset
\* alone.
C23_Original ==
    /\ (RecomputedIn("FBW") /\ sub_gap > 0) => sub_gap = 10
    /\ (op = "fast" /\ control_mode = "FBW" /\ ~Recomputed(S)) => sub_stay < 10
    /\ (RecomputedIn("FBW") /\ GPS_disabled)
          => (/\ next_WP.lng = TruncDiv(rc.rc_1, 2)
              /\ next_WP.lat = -TruncDiv(rc.rc_2, 2))

\* the number of times the last step called the operation
Occurs(name) == Cardinality({i \in 1..Len(calls) : calls[i] = name})

\* yaw and throttle of the last fast tick came straight from the pilot
PilotDirect ==
    /\ Occurs("output_manual_yaw") = 1 /\ Occurs("output_manual_throttle") = 1
    /\ Occurs("auto_yaw") = 0 /\ Occurs("output_auto_throttle") = 0

\* C24 (as stated): on a fast tick in ACRO, for roll and for pitch separately,
\* the rate controller runs exactly when the stick deflection magnitude
\* exceeds ACRO_RATE_TRIGGER and the stabilize controller otherwise, exactly
\* one of the two per axis; yaw and throttle are pilot-direct.
C24_Original ==
    (op = "fast" /\ control_mode = "ACRO") =>
        /\ Occurs("output_rate_roll") = IF Abs(rc.rc_1) > ACRO_RATE_TRIGGER THEN 1 ELSE 0
        /\ Occurs("output_stabilize_roll") + Occurs("output_rate_roll") = 1
        /\ Occurs("output_rate_pitch") = IF Abs(rc.rc_2) > ACRO_RATE_TRIGGER THEN 1 ELSE 0
        /\ Occurs("output_stabilize_pitch") + Occurs("output_rate_pitch") = 1
        /\ PilotDirect

\* C24 (amended): as stated, except that a deflection of exactly
\* ACRO_RATE_TRIGGER already selects the rate controller: it runs exactly when
\* the magnitude is at least ACRO_RATE_TRIGGER.
C24_Amended ==
    (op = "fast" /\ control_mode = "ACRO") =>
        /\ Occurs("output_rate_roll") = IF Abs(rc.rc_1) >= ACRO_RATE_TRIGGER THEN 1 ELSE 0
        /\ Occurs("output_stabilize_roll") + Occurs("output_rate_roll") = 1
        /\ Occurs("output_rate_pitch") = IF Abs(rc.rc_2) >= ACRO_RATE_TRIGGER THEN 1 ELSE 0
        /\ Occurs("output_stabilize_pitch") + Occurs("output_rate_pitch") = 1
        /\ PilotDirect

\* roll at the trigger is rate-controlled while the centred pitch is stabilized
C24_Witness ==
    /\ op = "fast" /\ control_mode = "ACRO"
    /\ rc.rc_1 = ACRO_RATE_TRIGGER /\ rc.rc_2 = 0
    /\ Occurs("output_rate_roll") = 1 /\ Occurs("output_stabilize_pitch") = 1

\* C25: on every fast tick in STABILIZE the navigation targets are zero when
\* control_nav_mixer and the stabilize stage run, whatever the navigation
\* phase of the medium tier wrote into them between fast ticks; yaw and
\* throttle are pilot-direct.
C25_NavZero ==
    (op = "fast" /\ control_mode = "STABILIZE") =>
        /\ mixer_nav = <<0, 0>>
        /\ nav_roll = 0 /\ nav_pitch = 0
        /\ Before(calls, "control_nav_mixer", "output_stabilize_roll")
        /\ Before(calls, "control_nav_mixer", "output_stabilize_pitch")
        /\ PilotDirect

\* the fast tick that follows a navigation phase which wrote non-zero targets
C25_Witness ==
    /\ op = "fast" /\ control_mode = "STABILIZE"
    /\ medium_loopCounter = 2 /\ nav_out = Nav(1500, -1500)
    /\ mixer_nav = <<0, 0>> /\ nav_roll = 0

\* C26: after every fast tick G_Dt_max is at least the number of milliseconds
\* that elapsed between that tick and the previous one, for every elapsed
\* time, overruns of 256 ms or more included.
C26_Original == op = "fast" => G_Dt_max >= fast_elapsed

\* C27: ground start completes in every flight mode: as long as every GPS
\* phase since the start of the countdown delivered a valid fix with non-zero
\* coordinates, each of them advanced the countdown by one (no fast tick in
\* between made it start over), so that the fifth leaves ground_start_count
\* at 0.
C27_Original ==
    good_run >= 1 => ground_start_count = Max(GroundStartFixes - good_run, 0)

\* C28: navigate() is invoked at most once per delivery of the driver; it runs
\* only in the navigation phase of the medium tier, only when new_data is
\* set, and the flag is cleared before it runs; in SIMPLE and FBW the
\* navigation phase computes nothing (neither navigate, calc_loiter_nav nor
\* calc_waypoint_nav) and leaves new_data as it was.
C28_Handoff ==
    /\ Occurs("navigate") > 0
          => (/\ op = "medium" /\ handoff.phase /\ Occurs("navigate") = 1
              /\ handoff.new_data /\ handoff.unserved
              /\ Before(calls, "case 1", "new_data = false")
              /\ Before(calls, "new_data = false", "navigate")
              /\ ~g_gps.new_data)
    /\ (NavPhase /\ control_mode \notin {"SIMPLE", "FBW"} /\ handoff.new_data)
          => Occurs("navigate") = 1
    /\ (NavPhase /\ control_mode \in {"SIMPLE", "FBW"})
          => (/\ Occurs("navigate") = 0 /\ Occurs("calc_loiter_nav") = 0
              /\ Occurs("calc_waypoint_nav") = 0
              /\ g_gps.new_data = handoff.new_data)

\* a delivery is served by the navigation phase in LOITER, after fast ticks
\* in SIMPLE or FBW
C28_Witness ==
    /\ NavPhase /\ control_mode = "LOITER" /\ Occurs("navigate") = 1
    /\ handoff.new_data /\ ~g_gps.new_data /\ ~unserved
    /\ fbw_timer > 0

\* C29: compass.save_offsets() is invoked only in slow phase 0, only when
\* superslow_loopCounter is above 1400, the throttle input is 0 and the
\* compass is enabled; superslow_loopCounter is reset to 0 exactly when a save
\* happens (it counts the slow-tier cycles since the last save), so that any
\* two saves are more than 1400 slow-tier cycles apart.
C29_CompassSave ==
    /\ Occurs("compass.save_offsets") > 0
          => (/\ op = "medium" /\ slow0.ran /\ Occurs("compass.save_offsets") = 1
              /\ Before(calls, "slow case 0", "compass.save_offsets")
              /\ slow0.cycles > CompassSavePeriod
              /\ rc.rc_3 = 0 /\ slow0.compass_enabled)
    /\ superslow_loopCounter = since_save
    /\ (op = "medium" /\ slow0.ran)
          => (superslow_loopCounter = 0 <=> Occurs("compass.save_offsets") = 1)

\* the second save, held back for one cycle by a raised throttle or a
\* disabled compass
C29_Witness ==
    /\ op = "medium" /\ Occurs("compass.save_offsets") = 1
    /\ saves = 2 /\ slow0.cycles = CompassSavePeriod + 2
    /\ superslow_loopCounter = 0

CodesOf(dg) == {dg.codes[i] : i \in 1..Len(dg.codes)}

SentDref == \E i \in 1..Len(xp_sent) : xp_sent[i].marker = "DREF0"

\* C31: receive_data returns true only for a datagram that starts with the
\* DATA marker, holds at least one full 36-byte record after the 5-byte header
\* and carries every code of required_mask; a call that returns false leaves
\* report.data_count as it was; update calls send_data only after
\* receive_data returned true.
C31_AcceptedComplete ==
    xp_call.op = "receive_data" =>
        /\ xp_call.accepted =>
               /\ Len(xp_call.dg.marker) >= 4
               /\ SubSeq(xp_call.dg.marker, 1, 4) = DataMarker
               /\ Len(xp_call.dg.codes) >= 1
               /\ RequiredCodes \subseteq CodesOf(xp_call.dg)
        /\ ~xp_call.accepted => xp_call.datas[2] = xp_call.datas[1]
        /\ SentDref => xp_call.accepted

\* a complete frame is accepted and answered after an earlier call failed
\* and was extrapolated
C31_Witness ==
    /\ xp_call.op = "receive_data" /\ xp_call.accepted
    /\ RequiredCodes \subseteq CodesOf(xp_call.dg)
    /\ xp_call.datas = <<0, 1>> /\ xp_call.frames = <<1, 2>>
    /\ SentDref

\* C32: when a call of receive_data fails and a frame was accepted before,
\* time_now_us advances by exactly 1000 us and report.frame_count by one if
\* the last accepted frame is at most 200 ms old, and time_now_us,
\* report.frame_count and report.data_count are unchanged if it is older.
C32_Original ==
    (xp_call.op = "receive_data" /\ ~xp_call.accepted /\ xp_call.had_frame) =>
        IF xp_call.age <= ExtrapolateMs
        THEN /\ xp_call.time[2] = xp_call.time[1] + FrameTimeUs
             /\ xp_call.frames[2] = xp_call.frames[1] + 1
        ELSE /\ xp_call.time[2] = xp_call.time[1]
             /\ xp_call.frames[2] = xp_call.frames[1]
             /\ xp_call.datas[2] = xp_call.datas[1]

============================================================================
